---- MODULE Spec2Model ----
(***************************************************************************)
(* HTU21D MicroPython driver (src/htu21d.py): the register codec, the      *)
(* measurement engine, the CRC verifier and the device facade, as a state  *)
(* machine over the driver session, the I2C bus and the sensor's user      *)
(* register.  Every bus transaction and every blocking wait is one step.   *)
(***************************************************************************)
EXTENDS Integers, Sequences, FiniteSets, TLC

VARIABLES
    reg,        \* the sensor's on-chip user register (a byte)
    i2c,        \* self.i2c: FALSE is None (before init), TRUE is a bus handle
    pc,         \* position of the driver inside the current call, or "idle"
    call,       \* the current (or last) call: operation and arguments
    read_reg,   \* local read_reg / res of the register operations
    data,       \* local data of a measurement: the frame readfrom returned
    raw,        \* local raw of a measurement: what _process_data returned
    result,     \* how the last call ended: returned value or exception
    log,        \* bus transactions and waits issued by the current call (and,
                \* in SpecEnv, the changes others made to the register meanwhile)
    pre,        \* history: reg when the current call started
    prev,       \* history: the previous call (operation, argument, reg when
                \* it started), kept while a register read or a toggle follows
                \* a returned operation that wrote the register, else NoPrev
    hist        \* history: the configuration calls returned since the session
                \* started with the register at hist.reg0, while no transaction
                \* has failed and nothing else has written the register; kept
                \* only in SpecConfig, else NoHistory

vars == <<reg, i2c, pc, call, read_reg, data, raw, result, log, pre, prev, hist>>

(***************************************************************************)
(* Python's integer operators on non-negative integers.                    *)
(***************************************************************************)
RECURSIVE BitAnd(_, _)
BitAnd(a, b) ==
    IF a = 0 \/ b = 0 THEN 0
    ELSE (a % 2) * (b % 2) + 2 * BitAnd(a \div 2, b \div 2)

RECURSIVE BitOr(_, _)
BitOr(a, b) ==
    IF a = 0 THEN b
    ELSE IF b = 0 THEN a
    ELSE (IF a % 2 = 1 \/ b % 2 = 1 THEN 1 ELSE 0) + 2 * BitOr(a \div 2, b \div 2)

RECURSIVE BitXor(_, _)
BitXor(a, b) ==
    IF a = 0 THEN b
    ELSE IF b = 0 THEN a
    ELSE ((a + b) % 2) + 2 * BitXor(a \div 2, b \div 2)

ShiftLeft(a, n) == a * 2^n

ShiftRight(a, n) == a \div 2^n

(***************************************************************************)
(* class Mode, class Registers, class UserRegister, class ENUM_UNIT.       *)
(***************************************************************************)
HOLD == 0
NO_HOLD == 1

HTU21DF_I2CADDR == 64        \* 0x40
HTU21DF_READTEMP_H == 227    \* 0xE3
HTU21DF_READTEMP_NH == 243   \* 0xF3
HTU21DF_READHUM_H == 229     \* 0xE5
HTU21DF_READHUM_NH == 245    \* 0xF5
HTU21DF_WRITEREG == 230      \* 0xE6
HTU21DF_READREG == 231       \* 0xE7
HTU21DF_RESET == 254         \* 0xFE

USER_REGISTER_RESOLUTION_MASK == 129         \* 0x81
USER_REGISTER_RESOLUTION_RH12_TEMP14 == 0    \* 0x00
USER_REGISTER_RESOLUTION_RH10_TEMP13 == 128  \* 0x80
USER_REGISTER_RESOLUTION_RH8_TEMP12 == 1     \* 0x01
USER_REGISTER_RESOLUTION_RH11_TEMP11 == 129  \* 0x81
USER_REGISTER_END_OF_BATTERY == 64           \* 0x40
USER_REGISTER_HEATER_ENABLED == 4            \* 0x04
USER_REGISTER_DISABLE_OTP_RELOAD == 2        \* 0x02

Celsius == 0
Fahrenheit == 1

(***************************************************************************)
(* _crc_check(raw, checksum): polynomial division of the 24-bit value      *)
(* raw << 8 | checksum by the divisor 0x988000, 16 steps.                  *)
(***************************************************************************)
CRC_DIVISOR == 9994240       \* 0x988000

RECURSIVE crc_loop(_, _, _)
crc_loop(remainder, divisor, i) ==
    IF i = 16 THEN remainder
    ELSE crc_loop(IF BitAnd(remainder, ShiftLeft(1, 23 - i)) # 0
                  THEN BitXor(remainder, divisor)
                  ELSE remainder,
                  ShiftRight(divisor, 1),
                  i + 1)

\* Mutant: the checksum byte is never OR-ed into the remainder.
_crc_check_no_checksum(raw_value, checksum) ==
    crc_loop(ShiftLeft(raw_value, 8), CRC_DIVISOR, 0) = 0

_crc_check(raw_value, checksum) ==
    crc_loop(BitOr(ShiftLeft(raw_value, 8), checksum), CRC_DIVISOR, 0) = 0

(***************************************************************************)
(* _process_data(data, enable_crc).  data is the frame as a sequence       *)
(* (data[1] is Python's data[0]).  The outcome is the value returned, or   *)
(* the exception raised.                                                   *)
(***************************************************************************)
STATUS_MASK == 65532         \* 0xFFFC

\* Mutant: the second byte taken as the most significant.
frame_raw_lsb_first(d) == BitOr(ShiftLeft(d[2], 8), d[1])

frame_raw(d) == BitOr(ShiftLeft(d[1], 8), d[2])

\* Mutant: the status bits are masked off before the CRC check.
_process_data_masked_crc(d, enable_crc) ==
    IF Len(d) # 3 THEN [exc |-> "none", val |-> 0]
    ELSE IF enable_crc /\ ~_crc_check(BitAnd(frame_raw(d), STATUS_MASK), d[3])
         THEN [exc |-> "ValueError", val |-> 0]
         ELSE [exc |-> "none", val |-> BitAnd(frame_raw(d), STATUS_MASK)]

\* Mutant: no length check; bytes a short frame lacks read as 0.
_process_data_no_length_check(d, enable_crc) ==
    LET b(i) == IF i <= Len(d) THEN d[i] ELSE 0
        r == BitOr(ShiftLeft(b(1), 8), b(2))
    IN  IF enable_crc /\ ~_crc_check(r, b(3))
        THEN [exc |-> "ValueError", val |-> 0]
        ELSE [exc |-> "none", val |-> BitAnd(r, STATUS_MASK)]

_process_data(d, enable_crc) ==
    IF Len(d) # 3 THEN [exc |-> "none", val |-> 0]
    ELSE IF enable_crc /\ ~_crc_check(frame_raw(d), d[3])
         THEN [exc |-> "ValueError", val |-> 0]
         ELSE [exc |-> "none", val |-> BitAnd(frame_raw(d), STATUS_MASK)]

(***************************************************************************)
(* Natural numbers of any size, for the 53-bit mantissas of Python's       *)
(* floats: a number is the sequence of its digits to the base 4096, the    *)
(* least significant first, with no zero at the top; zero is <<>>.         *)
(***************************************************************************)
LimbBits == 12

LimbBase == 2 ^ LimbBits

RECURSIVE BigOf(_)
BigOf(n) == IF n = 0 THEN <<>> ELSE <<n % LimbBase>> \o BigOf(n \div LimbBase)

RECURSIVE BigTrim(_)
BigTrim(a) ==
    IF a = <<>> THEN <<>>
    ELSE IF a[Len(a)] = 0 THEN BigTrim(SubSeq(a, 1, Len(a) - 1))
    ELSE a

RECURSIVE BigAddC(_, _, _)
BigAddC(a, b, c) ==
    IF a = <<>> /\ b = <<>> THEN BigOf(c)
    ELSE LET x == IF a = <<>> THEN 0 ELSE Head(a)
             y == IF b = <<>> THEN 0 ELSE Head(b)
             t == x + y + c
         IN  <<t % LimbBase>> \o BigAddC(IF a = <<>> THEN a ELSE Tail(a),
                                         IF b = <<>> THEN b ELSE Tail(b),
                                         t \div LimbBase)

BigAdd(a, b) == BigTrim(BigAddC(a, b, 0))

\* a - b, for a >= b.
RECURSIVE BigSubB(_, _, _)
BigSubB(a, b, borrow) ==
    IF a = <<>> THEN <<>>
    ELSE LET y == IF b = <<>> THEN 0 ELSE Head(b)
             t == Head(a) - y - borrow
         IN  <<t % LimbBase>> \o BigSubB(Tail(a),
                                         IF b = <<>> THEN b ELSE Tail(b),
                                         IF t < 0 THEN 1 ELSE 0)

BigSub(a, b) == BigTrim(BigSubB(a, b, 0))

RECURSIVE BigCmpAt(_, _, _)
BigCmpAt(a, b, i) ==
    IF i = 0 THEN 0
    ELSE IF a[i] < b[i] THEN -1
    ELSE IF a[i] > b[i] THEN 1
    ELSE BigCmpAt(a, b, i - 1)

\* -1, 0 or 1 as a is less than, equal to or greater than b.
BigCmp(a, b) ==
    IF Len(a) < Len(b) THEN -1
    ELSE IF Len(a) > Len(b) THEN 1
    ELSE BigCmpAt(a, b, Len(a))

\* a * k + c, for k and c below 2^17.
RECURSIVE BigMulSmall(_, _, _)
BigMulSmall(a, k, c) ==
    IF a = <<>> THEN BigOf(c)
    ELSE LET t == Head(a) * k + c
         IN  <<t % LimbBase>> \o BigMulSmall(Tail(a), k, t \div LimbBase)

RECURSIVE BigMulRaw(_, _)
BigMulRaw(a, b) ==
    IF b = <<>> THEN <<>>
    ELSE BigAddC(BigMulSmall(a, Head(b), 0), <<0>> \o BigMulRaw(a, Tail(b)), 0)

BigMul(a, b) == BigTrim(BigMulRaw(a, b))

RECURSIVE SmallBitLen(_)
SmallBitLen(n) == IF n = 0 THEN 0 ELSE 1 + SmallBitLen(n \div 2)

\* The number of bits of a.
BigBitLen(a) ==
    IF a = <<>> THEN 0 ELSE LimbBits * (Len(a) - 1) + SmallBitLen(a[Len(a)])

\* a * 2^k.
BigShl(a, k) ==
    IF a = <<>> THEN <<>>
    ELSE [i \in 1 .. (k \div LimbBits) |-> 0]
            \o BigTrim(BigMulSmall(a, 2 ^ (k % LimbBits), 0))

\* a \div 2^k.
BigShr(a, k) ==
    LET rest == SubSeq(a, (k \div LimbBits) + 1, Len(a))
        d == 2 ^ (k % LimbBits)
        top(i) == IF i < Len(rest) THEN rest[i + 1] % d ELSE 0
    IN  BigTrim([i \in 1 .. Len(rest) |->
                    (rest[i] \div d) + top(i) * (LimbBase \div d)])

\* Quotient and remainder of the digits 1 .. i of n, under the remainder
\* rem of the digits above them, by the number d below LimbBase.
RECURSIVE BigDivSmallAt(_, _, _, _)
BigDivSmallAt(n, d, i, rem) ==
    IF i = 0 THEN [q |-> <<>>, r |-> rem]
    ELSE LET cur == rem * LimbBase + n[i]
             low == BigDivSmallAt(n, d, i - 1, cur % d)
         IN  [q |-> Append(low.q, cur \div d), r |-> low.r]

\* Quotient and remainder of n by d, for d of one digit (0 < d < LimbBase),
\* which the divisors of the source are: 100 = 25 * 4, 5 and 65536 = 2^16.
BigDivMod(n, d) ==
    LET dm == BigDivSmallAt(n, d[1], Len(n), 0)
    IN  [q |-> BigTrim(dm.q), r |-> BigOf(dm.r)]

(***************************************************************************)
(* Python's float: an IEEE 754 double.  A float is [s, m, e] and stands    *)
(* for s * m * 2^e, with s the sign (1 or -1) and m an odd number of at    *)
(* most MantissaBits bits; zero is FZero.  Every operation gives the float *)
(* nearest to the exact result, ties going to the even mantissa.  The      *)
(* readings are far from the overflow and underflow of the exponent.       *)
(***************************************************************************)
MantissaBits == 53

FZero == [s |-> 1, m |-> <<>>, e |-> 0]

\* The float of sign s with the mantissa m * 2^e made odd.
RECURSIVE FStrip(_, _, _)
FStrip(s, m, e) ==
    IF m = <<>> THEN FZero
    ELSE IF m[1] = 0 THEN FStrip(s, Tail(m), e + LimbBits)
    ELSE IF m[1] % 2 = 0 THEN FStrip(s, BigShr(m, 1), e + 1)
    ELSE [s |-> s, m |-> m, e |-> e]

\* The float nearest to s * (n / d) * 2^e, for n > 0 and d > 0.
FRound(s, n, d, e) ==
    LET need == MantissaBits + 2 + BigBitLen(d) - BigBitLen(n)
        k == IF need > 0 THEN need ELSE 0
        dm == BigDivMod(BigShl(n, k), d)
        t == BigBitLen(dm.q) - MantissaBits
        m0 == BigShr(dm.q, t)
        tail == BigSub(dm.q, BigShl(m0, t))
        c == BigCmp(tail, BigShl(<<1>>, t - 1))
        up == c > 0 \/ (c = 0 /\ (dm.r # <<>> \/ m0[1] % 2 = 1))
    IN  FStrip(s, IF up THEN BigAdd(m0, <<1>>) ELSE m0, e - k + t)

\* float(n) of a Python int.
FloatOfInt(n) ==
    IF n = 0 THEN FZero
    ELSE FRound(IF n < 0 THEN -1 ELSE 1, BigOf(IF n < 0 THEN -n ELSE n), <<1>>, 0)

FNeg(a) == IF a.m = <<>> THEN a ELSE [a EXCEPT !.s = -a.s]

FMul(a, b) ==
    IF a.m = <<>> \/ b.m = <<>> THEN FZero
    ELSE FRound(a.s * b.s, BigMul(a.m, b.m), <<1>>, a.e + b.e)

FDiv(a, b) ==
    IF a.m = <<>> THEN FZero
    ELSE FRound(a.s * b.s, a.m, b.m, a.e - b.e)

FAdd(a, b) ==
    IF a.m = <<>> THEN b
    ELSE IF b.m = <<>> THEN a
    ELSE LET e == IF a.e < b.e THEN a.e ELSE b.e
             x == BigShl(a.m, a.e - e)
             y == BigShl(b.m, b.e - e)
             c == BigCmp(x, y)
         IN  IF a.s = b.s THEN FRound(a.s, BigAdd(x, y), <<1>>, e)
             ELSE IF c = 0 THEN FZero
             ELSE IF c > 0 THEN FRound(a.s, BigSub(x, y), <<1>>, e)
             ELSE FRound(b.s, BigSub(y, x), <<1>>, e)

\* The float of a decimal literal of the source, num / den in decimal.
FLiteral(num, den) == FDiv(FloatOfInt(num), FloatOfInt(den))

(***************************************************************************)
(* The arithmetic of read_temp and read_humidity, in floats, operation by  *)
(* operation in the order Python evaluates it.                             *)
(***************************************************************************)
\* -46.85 + (175.72 * raw / 65536)
temp_celsius(r) ==
    FAdd(FNeg(FLiteral(4685, 100)),
         FDiv(FMul(FLiteral(17572, 100), FloatOfInt(r)), FloatOfInt(65536)))

\* Mutant: the Celsius-to-Fahrenheit factor inverted.
temp_fahrenheit_inverted(t) ==
    FAdd(FDiv(FMul(t, FloatOfInt(5)), FloatOfInt(9)), FloatOfInt(32))

\* (temp * 9.0) / 5.0 + 32
temp_fahrenheit(t) ==
    FAdd(FDiv(FMul(t, FloatOfInt(9)), FloatOfInt(5)), FloatOfInt(32))

\* -6 + (125.0 * raw / 65536)
humidity_percent(r) ==
    FAdd(FloatOfInt(-6),
         FDiv(FMul(FloatOfInt(125), FloatOfInt(r)), FloatOfInt(65536)))

(***************************************************************************)
(* The values the register operations write back.                          *)
(***************************************************************************)
\* Mutant: the old resolution bits are not cleared.
set_resolution_value_keep_old(r, resolution) == BitOr(r, BitAnd(resolution, 129))

\* Mutant: the argument is not masked to the resolution bits.
set_resolution_value_unmasked(r, resolution) == BitOr(BitAnd(r, 126), resolution)

\* Mutant: the bits outside the resolution mask are written as zero.
set_resolution_value_clobber(r, resolution) == BitAnd(resolution, USER_REGISTER_RESOLUTION_MASK)

set_resolution_value(r, resolution) == BitOr(BitAnd(r, 126), BitAnd(resolution, 129))

\* Mutant: the heater bit is set, not toggled.
toggle_heater_value_set(r) == BitOr(r, 4)

toggle_heater_value(r) == BitXor(r, 4)

\* Mutant: the bit is cleared whatever it was.
toggle_otp_reload_value_clear(r) == BitAnd(r, 253)

toggle_otp_reload_value(r) == BitXor(r, 2)

(***************************************************************************)
(* Inputs.                                                                 *)
(***************************************************************************)
Byte == 0 .. 255

\* Arguments of set_resolution: the four enumerated levels, and values with
\* bits outside the resolution mask.
ResolutionArgs ==
    { USER_REGISTER_RESOLUTION_RH12_TEMP14, USER_REGISTER_RESOLUTION_RH10_TEMP13,
      USER_REGISTER_RESOLUTION_RH8_TEMP12, USER_REGISTER_RESOLUTION_RH11_TEMP11,
      126, 255 }

\* Arguments of a direct write_user_register.
WriteArgs == { 2, 58 }

Modes == { HOLD, NO_HOLD }

\* Celsius, Fahrenheit, and a unit that is neither.
Units == { Celsius, Fahrenheit, 2 }

\* Frames the transport hands to a measurement call: 3-byte frames with a
\* valid and an invalid checksum (0x683A/0x7C and 0x4E85/0x6B are the
\* datasheet's examples), and frames of the wrong length.
Frames ==
    { <<104, 58, 124>>, <<104, 58, 125>>, <<78, 133, 107>>,
      <<104, 58>>, <<104, 58, 124, 0>> }

\* Frames for the frame-processing specification: every checksum byte for a
\* sample of data bytes (all four patterns of the status bits, the extreme
\* codes), and frames of each wrong length from 0 to 4.
FrameMsb == { 0, 78, 104, 255 }

FrameLsb == { 0, 1, 2, 58, 133, 255 }

WideFrames ==
    { <<a, b, c>> : a \in FrameMsb, b \in FrameLsb, c \in Byte }
        \cup { <<>>, <<104>>, <<104, 58>>, <<104, 58, 124, 0>>, <<78, 133, 107, 107>> }

(***************************************************************************)
(* Values of the history of a call.                                        *)
(***************************************************************************)
Val(n) == [num |-> n, den |-> 1]

None == Val(0)

Bool(b) == Val(IF b THEN 1 ELSE 0)

NoCall == [op |-> "none", mode |-> HOLD, unit |-> Celsius, enable_crc |-> TRUE, arg |-> 0]

NoPrev == [op |-> "none", arg |-> 0, pre |-> -1]

\* The operations that change the sensor's register.
RegisterWriters ==
    { "reset", "set_resolution", "toggle_heater", "toggle_otp_reload",
      "write_user_register" }

\* The operations whose outcome is related to the call before them.
RegisterFollowers ==
    { "read_user_register", "end_of_battery", "heater_enabled",
      "otp_reload_enabled", "toggle_heater", "toggle_otp_reload" }

\* No history kept.
NoHistory == [on |-> FALSE, reg0 |-> 0, resolution |-> -1, heater |-> 0, otp |-> 0]

\* The history once the call op(arg) has written the register and returned:
\* the last set_resolution argument, and the toggle calls counted modulo 2.
Recorded(h, op, arg) ==
    IF ~h.on THEN h
    ELSE CASE op = "set_resolution" -> [h EXCEPT !.resolution = arg]
           [] op = "toggle_heater" -> [h EXCEPT !.heater = 1 - h.heater]
           [] op = "toggle_otp_reload" -> [h EXCEPT !.otp = 1 - h.otp]
           [] OTHER -> NoHistory

Event(ev, arg, ok) == [ev |-> ev, addr |-> HTU21DF_I2CADDR, arg |-> arg, ok |-> ok]

Sleep(ms) == [ev |-> "sleep_ms", addr |-> -1, arg |-> <<ms>>, ok |-> TRUE]

(***************************************************************************)
(* HTU21D.__init__: no bus yet.  The sensor's register holds any byte.     *)
(***************************************************************************)
Init ==
    /\ reg \in Byte
    /\ i2c = FALSE
    /\ pc = "idle"
    /\ call = NoCall
    /\ read_reg = -1
    /\ data = <<>>
    /\ raw = -1
    /\ result = [kind |-> "none", val |-> None]
    /\ log = <<>>
    /\ pre = -1
    /\ prev = NoPrev
    /\ hist = NoHistory

(***************************************************************************)
(* A caller enters an operation.  The session is single-threaded: a call   *)
(* starts only when no call is running.                                    *)
(***************************************************************************)
Begin(op, mode, unit, enable_crc, arg, first) ==
    /\ pc = "idle"
    /\ pc' = first
    /\ call' = [op |-> op, mode |-> mode, unit |-> unit,
                enable_crc |-> enable_crc, arg |-> arg]
    /\ read_reg' = -1
    /\ data' = <<>>
    /\ raw' = -1
    /\ result' = [kind |-> "running", val |-> None]
    /\ log' = <<>>
    /\ pre' = reg
    /\ prev' = IF /\ op \in RegisterFollowers
                  /\ call.op \in RegisterWriters
                  /\ result.kind = "return"
               THEN [op |-> call.op, arg |-> call.arg, pre |-> pre]
               ELSE NoPrev
    /\ UNCHANGED <<reg, hist>>

Raise(kind) ==
    /\ pc' = "idle"
    /\ result' = [kind |-> kind, val |-> None]

Return(v) ==
    /\ pc' = "idle"
    /\ result' = [kind |-> "return", val |-> v]

CallInit ==
    /\ Begin("init", HOLD, Celsius, TRUE, 0, "reset_cmd")
    /\ i2c' = TRUE

CallReset ==
    /\ Begin("reset", HOLD, Celsius, TRUE, 0, "reset_cmd")
    /\ UNCHANGED i2c

CallSetResolution ==
    /\ \E resolution \in ResolutionArgs :
          Begin("set_resolution", HOLD, Celsius, TRUE, resolution, "rur_cmd")
    /\ UNCHANGED i2c

CallToggleHeater ==
    /\ Begin("toggle_heater", HOLD, Celsius, TRUE, 0, "rur_cmd")
    /\ UNCHANGED i2c

CallToggleOtpReload ==
    /\ Begin("toggle_otp_reload", HOLD, Celsius, TRUE, 0, "rur_cmd")
    /\ UNCHANGED i2c

CallReadUserRegister ==
    /\ Begin("read_user_register", HOLD, Celsius, TRUE, 0, "rur_cmd")
    /\ UNCHANGED i2c

CallWriteUserRegister ==
    /\ \E value \in WriteArgs :
          Begin("write_user_register", HOLD, Celsius, TRUE, value, "wur")
    /\ UNCHANGED i2c

CallEndOfBattery ==
    /\ Begin("end_of_battery", HOLD, Celsius, TRUE, 0, "rur_cmd")
    /\ UNCHANGED i2c

CallHeaterEnabled ==
    /\ Begin("heater_enabled", HOLD, Celsius, TRUE, 0, "rur_cmd")
    /\ UNCHANGED i2c

CallOtpReloadEnabled ==
    /\ Begin("otp_reload_enabled", HOLD, Celsius, TRUE, 0, "rur_cmd")
    /\ UNCHANGED i2c

CallReadTemp ==
    /\ \E mode \in Modes, unit \in Units, enable_crc \in BOOLEAN :
          Begin("read_temp", mode, unit, enable_crc, 0, "meas_trigger")
    /\ UNCHANGED i2c

CallReadHumidity ==
    /\ \E mode \in Modes, enable_crc \in BOOLEAN :
          Begin("read_humidity", mode, Celsius, enable_crc, 0, "meas_trigger")
    /\ UNCHANGED i2c

(***************************************************************************)
(* The bus.  A transaction either succeeds or fails with OSError (the      *)
(* spec's BusError); a failed transaction has no effect on the sensor.     *)
(* With self.i2c still None the first bus access raises AttributeError.    *)
(***************************************************************************)
Transact(ev, arg, ok) == log' = Append(log, Event(ev, arg, ok))

\* The byte the sensor's register holds after a soft reset.
SOFT_RESET_DEFAULT == 2

\* Where a register operation goes once read_user_register has returned.
ConfigOps == { "set_resolution", "toggle_heater", "toggle_otp_reload" }

\* Mutant: the register is read back after the write.
wur_next_reread(op) == "rur_cmd"

\* Where a call goes once write_user_register has returned: back to the caller.
wur_next(op) == "idle"

end_of_battery_value(r) == BitAnd(r, USER_REGISTER_END_OF_BATTERY) # 0

heater_enabled_value(r) == BitAnd(r, USER_REGISTER_HEATER_ENABLED) # 0

\* Mutant: the flag read without its inversion.
otp_reload_enabled_value_inverted(r) ==
    IF BitAnd(r, USER_REGISTER_DISABLE_OTP_RELOAD) # 0 THEN TRUE ELSE FALSE

otp_reload_enabled_value(r) ==
    IF BitAnd(r, USER_REGISTER_DISABLE_OTP_RELOAD) # 0 THEN FALSE ELSE TRUE

\* Mutant: the end-of-battery status bit left out of the comparison.
init_value_masked(res) == BitAnd(res, 191) = 2

\* The value of init: the byte read, compared as a whole.
init_value(res) == res = 2

\* The value a register operation hands to write_user_register.
write_value(op, r, arg) ==
    CASE op = "set_resolution" -> set_resolution_value(r, arg)
      [] op = "toggle_heater" -> toggle_heater_value(r)
      [] op = "toggle_otp_reload" -> toggle_otp_reload_value(r)
      [] OTHER -> arg

(***************************************************************************)
(* read_user_register: writeto(READREG), then readfrom(1)[0].              *)
(***************************************************************************)
RurCmd ==
    /\ pc = "rur_cmd"
    /\ IF ~i2c
       THEN Raise("AttributeError") /\ UNCHANGED log
       ELSE \E ok \in BOOLEAN :
              /\ Transact("writeto", <<HTU21DF_READREG>>, ok)
              /\ IF ok THEN pc' = "rur_read" /\ UNCHANGED result
                       ELSE Raise("OSError")
    /\ hist' = IF pc' = "rur_read" THEN hist ELSE NoHistory
    /\ UNCHANGED <<reg, i2c, call, read_reg, data, raw, pre, prev>>

\* Mutant: the byte is taken from a copy made when the call started.
RurRead_cached ==
    /\ pc = "rur_read"
    /\ \E ok \in BOOLEAN :
         /\ Transact("readfrom", <<1>>, ok)
         /\ IF ~ok
            THEN Raise("OSError") /\ UNCHANGED read_reg
            ELSE /\ read_reg' = pre
                 /\ CASE call.op \in ConfigOps -> pc' = "wur" /\ UNCHANGED result
                      [] call.op = "end_of_battery" ->
                            Return(Bool(end_of_battery_value(pre)))
                      [] call.op = "heater_enabled" ->
                            Return(Bool(heater_enabled_value(pre)))
                      [] call.op = "otp_reload_enabled" ->
                            Return(Bool(otp_reload_enabled_value(pre)))
                      [] OTHER -> Return(Val(pre))
         /\ hist' = IF ok THEN hist ELSE NoHistory
    /\ UNCHANGED <<reg, i2c, call, data, raw, pre, prev>>

RurRead ==
    /\ pc = "rur_read"
    /\ \E ok \in BOOLEAN :
         /\ Transact("readfrom", <<1>>, ok)
         /\ IF ~ok
            THEN Raise("OSError") /\ UNCHANGED read_reg
            ELSE /\ read_reg' = reg
                 /\ CASE call.op \in ConfigOps -> pc' = "wur" /\ UNCHANGED result
                      [] call.op = "end_of_battery" ->
                            Return(Bool(end_of_battery_value(reg)))
                      [] call.op = "heater_enabled" ->
                            Return(Bool(heater_enabled_value(reg)))
                      [] call.op = "otp_reload_enabled" ->
                            Return(Bool(otp_reload_enabled_value(reg)))
                      [] OTHER -> Return(Val(reg))
         /\ hist' = IF ok THEN hist ELSE NoHistory
    /\ UNCHANGED <<reg, i2c, call, data, raw, pre, prev>>

(***************************************************************************)
(* write_user_register: one writevto of the opcode and the value.          *)
(***************************************************************************)
WurWrite ==
    /\ pc = "wur"
    /\ IF ~i2c
       THEN Raise("AttributeError") /\ UNCHANGED <<reg, log, hist>>
       ELSE LET value == write_value(call.op, read_reg, call.arg) IN
            \E ok \in BOOLEAN :
              /\ Transact("writevto", <<HTU21DF_WRITEREG, value>>, ok)
              /\ IF ok
                 THEN /\ reg' = value
                      /\ pc' = wur_next(call.op)
                      /\ result' = IF wur_next(call.op) = "idle"
                                   THEN [kind |-> "return", val |-> None]
                                   ELSE result
                 ELSE Raise("OSError") /\ UNCHANGED reg
              /\ hist' = IF ok THEN Recorded(hist, call.op, call.arg) ELSE NoHistory
    /\ UNCHANGED <<i2c, call, read_reg, data, raw, pre, prev>>

(***************************************************************************)
(* reset, and init after its bus setup: reset, then the register read.     *)
(***************************************************************************)
ResetCmd ==
    /\ pc = "reset_cmd"
    /\ IF ~i2c
       THEN Raise("AttributeError") /\ UNCHANGED <<reg, log>>
       ELSE \E ok \in BOOLEAN :
              /\ Transact("writeto", <<HTU21DF_RESET>>, ok)
              /\ IF ok
                 THEN reg' = SOFT_RESET_DEFAULT /\ pc' = "reset_sleep" /\ UNCHANGED result
                 ELSE Raise("OSError") /\ UNCHANGED reg
    /\ UNCHANGED <<i2c, call, read_reg, data, raw, pre, prev, hist>>

\* Mutant: reset goes on without the wait.
ResetSleep_skipped ==
    /\ pc = "reset_sleep"
    /\ IF call.op = "init"
       THEN pc' = "init_cmd" /\ UNCHANGED result
       ELSE Return(None)
    /\ UNCHANGED <<reg, i2c, call, read_reg, data, raw, log, pre, prev, hist>>

ResetSleep ==
    /\ pc = "reset_sleep"
    /\ log' = Append(log, Sleep(15))
    /\ IF call.op = "init"
       THEN pc' = "init_cmd" /\ UNCHANGED result
       ELSE Return(None)
    /\ UNCHANGED <<reg, i2c, call, read_reg, data, raw, pre, prev, hist>>

InitCmd ==
    /\ pc = "init_cmd"
    /\ \E ok \in BOOLEAN :
         /\ Transact("writeto", <<HTU21DF_READREG>>, ok)
         /\ IF ok THEN pc' = "init_read" /\ UNCHANGED result
                  ELSE Raise("OSError")
    /\ UNCHANGED <<reg, i2c, call, read_reg, data, raw, pre, prev, hist>>

InitRead ==
    /\ pc = "init_read"
    /\ \E ok \in BOOLEAN :
         /\ Transact("readfrom", <<1>>, ok)
         /\ IF ok
            THEN read_reg' = reg /\ Return(Bool(init_value(reg)))
            ELSE Raise("OSError") /\ UNCHANGED read_reg
    /\ UNCHANGED <<reg, i2c, call, data, raw, pre, prev, hist>>

(***************************************************************************)
(* read_temp and read_humidity: trigger, sleep_ms(50), readfrom(3),        *)
(* _process_data, conversion.                                              *)
(***************************************************************************)
\* Mutant: the hold and no-hold opcodes exchanged.
trigger_opcode_swapped(op, mode) ==
    IF op = "read_temp"
    THEN (IF mode = HOLD THEN HTU21DF_READTEMP_NH ELSE HTU21DF_READTEMP_H)
    ELSE (IF mode = HOLD THEN HTU21DF_READHUM_NH ELSE HTU21DF_READHUM_H)

trigger_opcode(op, mode) ==
    IF op = "read_temp"
    THEN (IF mode = HOLD THEN HTU21DF_READTEMP_H ELSE HTU21DF_READTEMP_NH)
    ELSE (IF mode = HOLD THEN HTU21DF_READHUM_H ELSE HTU21DF_READHUM_NH)

\* What read_temp does with the value of _process_data.
read_temp_outcome(r, unit) ==
    IF unit = Celsius
    THEN [kind |-> "return", val |-> temp_celsius(r)]
    ELSE IF unit = Fahrenheit
         THEN [kind |-> "return", val |-> temp_fahrenheit(temp_celsius(r))]
         ELSE [kind |-> "NotImplementedError", val |-> None]

read_humidity_outcome(r) == [kind |-> "return", val |-> humidity_percent(r)]

MeasTrigger ==
    /\ pc = "meas_trigger"
    /\ IF ~i2c
       THEN Raise("AttributeError") /\ UNCHANGED log
       ELSE \E ok \in BOOLEAN :
              /\ Transact("writeto", <<trigger_opcode(call.op, call.mode)>>, ok)
              /\ IF ok THEN pc' = "meas_sleep" /\ UNCHANGED result
                       ELSE Raise("OSError")
    /\ UNCHANGED <<reg, i2c, call, read_reg, data, raw, pre, prev, hist>>

\* Mutant: the read is issued without the wait.
MeasSleep_skipped ==
    /\ pc = "meas_sleep"
    /\ pc' = "meas_read"
    /\ UNCHANGED <<reg, i2c, call, read_reg, data, raw, result, log, pre, prev, hist>>

MeasSleep ==
    /\ pc = "meas_sleep"
    /\ log' = Append(log, Sleep(50))
    /\ pc' = "meas_read"
    /\ UNCHANGED <<reg, i2c, call, read_reg, data, raw, result, pre, prev, hist>>

MeasRead ==
    /\ pc = "meas_read"
    /\ \E ok \in BOOLEAN :
         /\ Transact("readfrom", <<3>>, ok)
         /\ IF ok
            THEN /\ \E frame \in Frames : data' = frame
                 /\ pc' = "meas_process"
                 /\ UNCHANGED result
            ELSE Raise("OSError") /\ UNCHANGED data
    /\ UNCHANGED <<reg, i2c, call, read_reg, raw, pre, prev, hist>>

\* Mutant: a frame that fails the CRC check is measured again.
MeasProcess_retry ==
    /\ pc = "meas_process"
    /\ LET p == _process_data(data, call.enable_crc) IN
       IF p.exc # "none"
       THEN pc' = "meas_trigger" /\ UNCHANGED <<raw, result>>
       ELSE /\ raw' = p.val
            /\ pc' = "idle"
            /\ result' = IF call.op = "read_temp"
                         THEN read_temp_outcome(p.val, call.unit)
                         ELSE read_humidity_outcome(p.val)
    /\ UNCHANGED <<reg, i2c, call, read_reg, data, log, pre, prev, hist>>

MeasProcess ==
    /\ pc = "meas_process"
    /\ LET p == _process_data(data, call.enable_crc) IN
       IF p.exc # "none"
       THEN Raise(p.exc) /\ UNCHANGED raw
       ELSE /\ raw' = p.val
            /\ pc' = "idle"
            /\ result' = IF call.op = "read_temp"
                         THEN read_temp_outcome(p.val, call.unit)
                         ELSE read_humidity_outcome(p.val)
    /\ UNCHANGED <<reg, i2c, call, read_reg, data, log, pre, prev, hist>>

Next ==
    \/ CallInit
    \/ CallReset
    \/ CallSetResolution
    \/ CallToggleHeater
    \/ CallToggleOtpReload
    \/ CallReadUserRegister
    \/ CallWriteUserRegister
    \/ CallEndOfBattery
    \/ CallHeaterEnabled
    \/ CallOtpReloadEnabled
    \/ CallReadTemp
    \/ CallReadHumidity
    \/ RurCmd
    \/ RurRead
    \/ WurWrite
    \/ ResetCmd
    \/ ResetSleep
    \/ InitCmd
    \/ InitRead
    \/ MeasTrigger
    \/ MeasSleep
    \/ MeasRead
    \/ MeasProcess

Spec == Init /\ [][Next]_vars

(***************************************************************************)
(* The configuration calls on their own: the session after init(), either  *)
(* with the register at its reset value, or, when init's reset write       *)
(* failed, with the register at any byte; then set_resolution,             *)
(* toggle_heater and toggle_otp_reload, with the history of the calls.     *)
(***************************************************************************)
InitConfig ==
    /\ i2c = TRUE
    /\ pc = "idle"
    /\ call = [op |-> "init", mode |-> HOLD, unit |-> Celsius,
               enable_crc |-> TRUE, arg |-> 0]
    /\ data = <<>>
    /\ raw = -1
    /\ pre \in Byte
    /\ prev = NoPrev
    /\ \/ /\ reg = SOFT_RESET_DEFAULT
          /\ read_reg = SOFT_RESET_DEFAULT
          /\ result = [kind |-> "return", val |-> Bool(TRUE)]
          /\ log = << Event("writeto", <<HTU21DF_RESET>>, TRUE),
                      Sleep(15),
                      Event("writeto", <<HTU21DF_READREG>>, TRUE),
                      Event("readfrom", <<1>>, TRUE) >>
       \/ /\ reg = pre
          /\ read_reg = -1
          /\ result = [kind |-> "OSError", val |-> None]
          /\ log = << Event("writeto", <<HTU21DF_RESET>>, FALSE) >>
    /\ hist = [on |-> TRUE, reg0 |-> reg, resolution |-> -1, heater |-> 0, otp |-> 0]

NextConfig ==
    \/ CallSetResolution
    \/ CallToggleHeater
    \/ CallToggleOtpReload
    \/ RurCmd
    \/ RurRead
    \/ WurWrite

SpecConfig == InitConfig /\ [][NextConfig]_vars

(***************************************************************************)
(* The register with the sensor and a second controller acting on it.  The *)
(* sensor sets and clears the end-of-battery bit by itself, and another    *)
(* controller on the bus writes the register, at any moment, also between  *)
(* two transactions of a call.  The log of a running call keeps up to      *)
(* MaxForeign of these changes, each at the place where it happened.       *)
(***************************************************************************)
MaxForeign == 1

OtherWrites == { 2, 58 }

\* The register bytes the session of SpecEnv starts from.
EnvRegisters == { 2, 197 }

Foreign(ev, value) == [ev |-> ev, addr |-> -1, arg |-> <<value>>, ok |-> TRUE]

ForeignEvents == { "other_write", "device" }

\* The transactions and waits of the driver in the log.
DriverLog == SelectSeq(log, LAMBDA e : e.ev \notin ForeignEvents)

\* The log once the register was changed to value from outside the session.
ForeignLogged(ev, value) ==
    IF pc = "idle" THEN log ELSE Append(log, Foreign(ev, value))

OtherWrite ==
    /\ pc # "idle" => Len(log) - Len(DriverLog) < MaxForeign
    /\ \E w \in OtherWrites :
          /\ reg' = w
          /\ log' = ForeignLogged("other_write", w)
    /\ hist' = NoHistory
    /\ UNCHANGED <<i2c, pc, call, read_reg, data, raw, result, pre, prev>>

DeviceBattery ==
    /\ pc # "idle" => Len(log) - Len(DriverLog) < MaxForeign
    /\ reg' = BitXor(reg, USER_REGISTER_END_OF_BATTERY)
    /\ log' = ForeignLogged("device", reg')
    /\ hist' = NoHistory
    /\ UNCHANGED <<i2c, pc, call, read_reg, data, raw, result, pre, prev>>

NextEnv ==
    \/ CallInit
    \/ CallToggleHeater
    \/ CallToggleOtpReload
    \/ CallEndOfBattery
    \/ CallHeaterEnabled
    \/ CallOtpReloadEnabled
    \/ RurCmd
    \/ RurRead
    \/ WurWrite
    \/ ResetCmd
    \/ ResetSleep
    \/ InitCmd
    \/ InitRead
    \/ OtherWrite
    \/ DeviceBattery

InitEnv == Init /\ reg \in EnvRegisters

SpecEnv == InitEnv /\ [][NextEnv]_vars

(***************************************************************************)
(* Frame processing on its own: a measurement call that has triggered,     *)
(* waited and read a frame, for every frame of WideFrames, and the step    *)
(* that processes the frame.                                               *)
(***************************************************************************)
InitFrame ==
    /\ reg = SOFT_RESET_DEFAULT
    /\ i2c = TRUE
    /\ pc = "meas_process"
    /\ \E unit \in Units, enable_crc \in BOOLEAN :
          call \in { [op |-> "read_temp", mode |-> HOLD, unit |-> unit,
                      enable_crc |-> enable_crc, arg |-> 0],
                     [op |-> "read_humidity", mode |-> HOLD, unit |-> Celsius,
                      enable_crc |-> enable_crc, arg |-> 0] }
    /\ read_reg = -1
    /\ data \in WideFrames
    /\ raw = -1
    /\ result = [kind |-> "running", val |-> None]
    /\ log = << Event("writeto", <<trigger_opcode(call.op, call.mode)>>, TRUE),
                Sleep(50),
                Event("readfrom", <<3>>, TRUE) >>
    /\ pre = SOFT_RESET_DEFAULT
    /\ prev = NoPrev
    /\ hist = NoHistory

NextFrame == MeasProcess

SpecFrame == InitFrame /\ [][NextFrame]_vars

(***************************************************************************)
(* Properties.                                                             *)
(***************************************************************************)
Returned(op) == pc = "idle" /\ call.op = op /\ result.kind = "return"

\* A measurement call whose three bus steps succeeded and whose frame has
\* been processed.
MeasOps == { "read_temp", "read_humidity" }

FrameProcessed ==
    /\ pc = "idle"
    /\ call.op \in MeasOps
    /\ Len(log) = 3
    /\ log[3].ev = "readfrom"
    /\ log[3].ok

SupportedUnit == call.op = "read_humidity" \/ call.unit \in {Celsius, Fahrenheit}

\* The sensor's checksum, bytewise: CRC-8, polynomial x^8 + x^5 + x^4 + 1
\* (0x31), initial value 0, most significant bit first.
RECURSIVE crc8_shift(_, _)
crc8_shift(crc, n) ==
    IF n = 0 THEN crc
    ELSE crc8_shift(IF crc >= 128 THEN BitXor((crc * 2) % 256, 49) ELSE crc * 2, n - 1)

Crc8(b0, b1) == crc8_shift(BitXor(crc8_shift(b0, 8), b1), 8)

\* C1: when read_user_register returns right after a set_resolution(R) that
\* returned, the value read has R & 0x81 under the mask 0x81; so has the
\* sensor's register when set_resolution(R) returns.
C1_SetResolutionRead ==
    /\ Returned("set_resolution") =>
          BitAnd(reg, 129) = BitAnd(call.arg, 129)
    /\ Returned("read_user_register") /\ prev.op = "set_resolution" =>
          BitAnd(result.val.num, 129) = BitAnd(prev.arg, 129)

\* C1 witness: a read after set_resolution(0x7E) on a register whose
\* resolution bits were both set.
C1_Witness ==
    /\ Returned("read_user_register")
    /\ prev.op = "set_resolution"
    /\ prev.arg = 126
    /\ BitAnd(prev.pre, 129) = 129

\* C2: during and after set_resolution(R), whatever R and however the call
\* ends, the heater bit (0x04), the OTP-reload-disable bit (0x02) and the
\* end-of-battery bit (0x40) of the sensor's register are those of the
\* register before the call.
C2_SetResolutionFrame ==
    call.op = "set_resolution" => BitAnd(reg, 70) = BitAnd(pre, 70)

\* C2 witness: set_resolution(0xFF) returned, having changed a register
\* whose heater, OTP and end-of-battery bits were 1, 0 and 1.
C2_Witness ==
    /\ Returned("set_resolution")
    /\ call.arg = 255
    /\ BitAnd(pre, 70) = 68
    /\ reg # pre

\* C3 as stated: after reset() returned, read_user_register returns 0x02,
\* heater_enabled is false and otp_reload_enabled is true.
C3_AfterResetOriginal ==
    pc = "idle" /\ result.kind = "return" /\ prev.op = "reset" =>
        /\ call.op = "read_user_register" => result.val = Val(2)
        /\ call.op = "heater_enabled" => result.val = Bool(FALSE)
        /\ call.op = "otp_reload_enabled" => result.val = Bool(TRUE)

\* C3 amended: after reset() returned, read_user_register returns 0x02,
\* heater_enabled is false and otp_reload_enabled is false (0x02 is the
\* OTP-reload-disable bit, set).
C3_AfterReset ==
    pc = "idle" /\ result.kind = "return" /\ prev.op = "reset" =>
        /\ call.op = "read_user_register" => result.val = Val(2)
        /\ call.op = "heater_enabled" => result.val = Bool(FALSE)
        /\ call.op = "otp_reload_enabled" => result.val = Bool(FALSE)

\* C3 witness: otp_reload_enabled evaluated right after a reset that
\* changed the register.
C3_Witness ==
    /\ Returned("otp_reload_enabled")
    /\ prev.op = "reset"
    /\ prev.pre # 2

\* C4: for a 3-byte frame, _crc_check accepts the third byte for the value
\* of the first two exactly when it is their CRC-8 (x^8 + x^5 + x^4 + 1,
\* initial value 0): the right checksum is accepted and no other byte is.
C4_CrcCheck ==
    Len(data) = 3 =>
        (_crc_check(frame_raw(data), data[3]) <=> data[3] = Crc8(data[1], data[2]))

\* C4 witness: a call that verified and accepted a frame with a checksum
\* that is not zero.
C4_Witness ==
    /\ FrameProcessed
    /\ call.enable_crc
    /\ Len(data) = 3
    /\ data[3] # 0
    /\ result.kind = "return"

\* C5: for a 3-byte frame and a supported unit, the measurement call ends
\* in ValueError exactly when enable_crc is set and the third byte is not
\* the CRC-8 of the first two (unmasked); without enable_crc it returns.
C5_DataIntegrity ==
    FrameProcessed /\ Len(data) = 3 /\ SupportedUnit =>
        /\ result.kind = "ValueError" <=>
              (call.enable_crc /\ data[3] # Crc8(data[1], data[2]))
        /\ result.kind \in {"ValueError", "return"}
        /\ ~call.enable_crc => result.kind = "return"

\* C5 witness: a verified call rejected a frame whose checksum is the
\* right one for the masked code but not for the code with its status bits.
C5_Witness ==
    /\ FrameProcessed
    /\ call.enable_crc
    /\ Len(data) = 3
    /\ data[2] % 4 # 0
    /\ data[3] = Crc8(data[1], data[2] - (data[2] % 4))
    /\ result.kind = "ValueError"

\* C6 as stated: read_temp with a unit that is neither Celsius nor
\* Fahrenheit, all bus transactions succeeding, ends in
\* NotImplementedError.
C6_UnsupportedUnit ==
    FrameProcessed /\ call.op = "read_temp" /\ ~SupportedUnit =>
        result.kind = "NotImplementedError"

\* C7: a frame whose length is not 3 gives raw 0 and no ValueError, with
\* enable_crc too; with a supported unit the call returns the reading of 0.
C7_MalformedFrame ==
    FrameProcessed /\ Len(data) # 3 =>
        /\ raw = 0
        /\ result.kind # "ValueError"
        /\ SupportedUnit =>
              result = (IF call.op = "read_humidity"
                        THEN read_humidity_outcome(0)
                        ELSE read_temp_outcome(0, call.unit))
        /\ result.kind = "return" /\ call.op = "read_humidity" =>
              result.val = FloatOfInt(-6)

\* C7 witness: a verified read_humidity returned on a 4-byte frame.
C7_Witness ==
    /\ FrameProcessed
    /\ call.op = "read_humidity"
    /\ call.enable_crc
    /\ Len(data) = 4
    /\ result.kind = "return"

\* C8: when set_resolution, toggle_heater or toggle_otp_reload has not
\* returned (it is running, or it ended in an exception), the sensor's
\* register is the one before the call.
C8_FailureLeavesRegister ==
    call.op \in ConfigOps /\ ~(pc = "idle" /\ result.kind = "return") =>
        reg = pre

\* C8 witness: toggle_heater ended in OSError on its combined write.
C8_Witness ==
    /\ pc = "idle"
    /\ call.op = "toggle_heater"
    /\ result.kind = "OSError"
    /\ Len(log) = 3
    /\ log[3].ev = "writevto"
    /\ log[3].arg[2] # pre

\* C9: when toggle_heater returns right after a toggle_heater that
\* returned, the register is the one before the first of the two calls.
C9_ToggleTwice ==
    Returned("toggle_heater") /\ prev.op = "toggle_heater" => reg = prev.pre

\* C9 witness: the second toggle_heater returned, the heater bit having
\* been clear before the first.
C9_Witness ==
    /\ Returned("toggle_heater")
    /\ prev.op = "toggle_heater"
    /\ BitAnd(prev.pre, 4) = 0
    /\ BitAnd(pre, 4) = 4

\* C10: the code _process_data returns for a 3-byte frame it accepts is
\* 256 * b0 + b1 with the two low bits cleared.
C10_RawCode ==
    FrameProcessed /\ Len(data) = 3 /\ result.kind # "ValueError" =>
        /\ raw = 256 * data[1] + data[2] - (data[2] % 4)
        /\ raw % 4 = 0

\* C10 witness: an accepted frame whose bytes differ and whose status bits
\* are set.
C10_Witness ==
    /\ FrameProcessed
    /\ call.enable_crc
    /\ Len(data) = 3
    /\ data[1] # data[2]
    /\ data[2] % 4 = 1
    /\ result.kind = "return"

\* The events of the log from the first to the n-th are the first n of the
\* sequence want, and the log is no longer than want.
LogFollows(want) ==
    /\ Len(log) <= Len(want)
    /\ \A i \in 1 .. Len(log) :
          /\ log[i].ev = want[i].ev
          /\ log[i].addr = want[i].addr
          /\ log[i].arg = want[i].arg
          /\ i < Len(log) => log[i].ok

\* C11: in read_temp and read_humidity, in both modes and whatever the
\* register (the resolution) holds, the call issues the trigger write, then
\* the 50 ms wait, then one read of 3 bytes, in this order and nothing
\* else; the read is in the log only after the wait, and a frame is there
\* only after the read.
C11_MeasurementOrder ==
    call.op \in MeasOps =>
        /\ \E opcode \in Byte :
              LogFollows(<< [ev |-> "writeto", addr |-> 64, arg |-> <<opcode>>],
                            [ev |-> "sleep_ms", addr |-> -1, arg |-> <<50>>],
                            [ev |-> "readfrom", addr |-> 64, arg |-> <<3>>] >>)
        /\ pc = "meas_read" => Len(log) = 2
        /\ pc = "meas_process" \/ data # <<>> => Len(log) = 3 /\ log[3].ok

\* C11 witness: a NO_HOLD read_temp has read its frame, at the lowest
\* resolution (both resolution bits set).
C11_Witness ==
    /\ call.op = "read_temp"
    /\ call.mode = NO_HOLD
    /\ pc = "meas_process"
    /\ BitAnd(reg, 129) = 129
    /\ log[2].arg = <<50>>

\* C12: in reset and init the soft-reset write is followed by the 15 ms
\* wait before anything else: reset returns only with the wait in its log,
\* and init sends the read-register command only after it.
C12_ResetWait ==
    call.op \in {"reset", "init"} =>
        /\ LogFollows(<< [ev |-> "writeto", addr |-> 64, arg |-> <<254>>],
                         [ev |-> "sleep_ms", addr |-> -1, arg |-> <<15>>],
                         [ev |-> "writeto", addr |-> 64, arg |-> <<231>>],
                         [ev |-> "readfrom", addr |-> 64, arg |-> <<1>>] >>)
        /\ call.op = "reset" => Len(log) <= 2
        /\ pc = "idle" /\ result.kind = "return" =>
              Len(log) = (IF call.op = "reset" THEN 2 ELSE 4)
        /\ pc \in {"init_cmd", "init_read"} => Len(log) >= 2

\* C12 witness: init has sent the read-register command after reset's wait.
C12_Witness ==
    /\ call.op = "init"
    /\ pc = "init_read"
    /\ Len(log) = 3
    /\ log[2].ev = "sleep_ms"

\* The opcode bytes of the command table, by operation and mode.
TableOpcode(op, mode) ==
    CASE op = "read_temp" /\ mode = HOLD -> 227
      [] op = "read_temp" /\ mode = NO_HOLD -> 243
      [] op = "read_humidity" /\ mode = HOLD -> 229
      [] op = "read_humidity" /\ mode = NO_HOLD -> 245
      [] op = "reset" -> 254
      [] OTHER -> 231

\* C15: every bus transaction in the log is to address 0x40; a write of one
\* byte carries the opcode of the table for the operation and mode (0xFE
\* first and 0xE7 second in init); a register write is one writevto of
\* 0xE6 and the value byte.
C15_AddressAndOpcodes ==
    \A i \in 1 .. Len(log) :
        log[i].ev # "sleep_ms" =>
            /\ log[i].addr = 64
            /\ log[i].ev = "writeto" =>
                  log[i].arg = << IF call.op = "init"
                                  THEN (IF i = 1 THEN 254 ELSE 231)
                                  ELSE TableOpcode(call.op, call.mode) >>
            /\ log[i].ev = "writevto" =>
                  /\ Len(log[i].arg) = 2
                  /\ log[i].arg[1] = 230
                  /\ log[i].arg[2] \in Byte
                  /\ log[i].ok /\ pc = "idle" => reg = log[i].arg[2]
            /\ log[i].ev = "readfrom" =>
                  log[i].arg = << IF call.op \in MeasOps THEN 3 ELSE 1 >>

\* C15 witness: a read_humidity in HOLD mode has sent its trigger.
C15_Witness ==
    /\ call.op = "read_humidity"
    /\ call.mode = HOLD
    /\ pc = "meas_sleep"
    /\ log[1].arg = <<229>>

\* The number of events of the log of kind ev.
CountEvents(ev) == Cardinality({ i \in 1 .. Len(log) : log[i].ev = ev })

\* C16: only the last transaction of a call can have failed, and then the
\* call has ended in OSError; a measurement call holds at most one trigger
\* write and one read, also when it ended in ValueError.
C16_NoRetry ==
    /\ \A i \in 1 .. Len(log) :
          ~log[i].ok => i = Len(log) /\ pc = "idle" /\ result.kind = "OSError"
    /\ result.kind = "OSError" => Len(log) >= 1 /\ ~log[Len(log)].ok
    /\ call.op \in MeasOps =>
          /\ CountEvents("writeto") <= 1
          /\ CountEvents("readfrom") <= 1
          /\ CountEvents("sleep_ms") <= 1
    /\ call.op \in MeasOps /\ result.kind = "ValueError" => pc = "idle" /\ Len(log) = 3

\* C16 witness: a measurement call ended in ValueError after its one
\* trigger and one read.
C16_Witness ==
    /\ call.op = "read_temp"
    /\ pc = "idle"
    /\ result.kind = "ValueError"
    /\ CountEvents("readfrom") = 1

\* The exact value of the formulas for the code r, a multiple of 4, as the
\* fraction n / d: -46.85 + 175.72 * r / 65536 is
\* (4393 * (r / 4) - 19189760) / 409600, that times 9/5 plus 32 is
\* (39537 * (r / 4) - 107171840) / 2048000, and -6 + 125 * r / 65536 is
\* (125 * r - 393216) / 65536.
ExactReading(op, unit, r) ==
    IF op = "read_humidity" THEN [n |-> 125 * r - 6 * 65536, d |-> 65536]
    ELSE IF unit = Celsius
         THEN [n |-> 4393 * (r \div 4) - 4685 * 4096, d |-> 100 * 4096]
         ELSE [n |-> 39537 * (r \div 4) - 5233 * 20480, d |-> 100 * 20480]

\* The float nearest to the fraction x.n / x.d.
NearestFloat(x) == FDiv(FloatOfInt(x.n), FloatOfInt(x.d))

\* The float f is within 2^(-bits) of the fraction x.n / x.d.
FWithin(f, x, bits) ==
    LET down == IF f.e < 0 THEN -f.e ELSE 0
        up == IF f.e > 0 THEN f.e ELSE 0
        a == BigShl(BigMul(f.m, BigOf(x.d)), up)
        b == BigShl(BigOf(IF x.n < 0 THEN -x.n ELSE x.n), down)
        same == (f.s = -1) <=> (x.n < 0)
        diff == IF a = <<>> \/ b = <<>> \/ ~same THEN BigAdd(a, b)
                ELSE IF BigCmp(a, b) >= 0 THEN BigSub(a, b)
                ELSE BigSub(b, a)
    IN  BigCmp(BigShl(diff, bits), BigShl(BigOf(x.d), down)) <= 0

\* The formulas at the codes 0 and 65536.
ReferencePoints ==
    /\ temp_celsius(0) = FNeg(FLiteral(4685, 100))
    /\ FWithin(temp_fahrenheit(temp_celsius(0)), [n |-> -5233, d |-> 100], 40)
    /\ temp_fahrenheit(temp_celsius(0)) # FNeg(FLiteral(5233, 100))
    /\ humidity_percent(0) = FloatOfInt(-6)
    /\ temp_celsius(65536) = FLiteral(12887, 100)
    /\ humidity_percent(65536) = FloatOfInt(119)

\* C17 as stated, the values taken as the floats a caller compares with:
\* the reading returned for the code raw is the float nearest to the exact
\* value of the formula (-52.33 for read_temp in Fahrenheit at raw 0).
C17_ConversionExact ==
    FrameProcessed /\ result.kind = "return" =>
        result.val = NearestFloat(ExactReading(call.op, call.unit, raw))

\* C17 (amended): the reading returned for the code raw is the formula
\* evaluated in floats: for humidity it is the exact value, for the
\* temperature it is within 2^-40 of the exact value of
\* -46.85 + 175.72 * raw / 65536, or of that times 9/5 plus 32.  At raw 0
\* the readings are the floats -46.85 and -6 and, in Fahrenheit, a float
\* within 2^-40 of -52.33 that is not the float -52.33; at raw 65536 the
\* formulas give the floats 128.87 and 119.
C17_Conversion ==
    /\ FrameProcessed /\ result.kind = "return" =>
          /\ FWithin(result.val, ExactReading(call.op, call.unit, raw), 40)
          /\ call.op = "read_humidity" =>
                result.val = NearestFloat(ExactReading(call.op, call.unit, raw))
    /\ ReferencePoints

\* C17 witness: read_temp in Fahrenheit returned, for a verified frame of
\* code 0, a float within 2^-40 of -52.33 that is not the float -52.33.
C17_Witness ==
    /\ FrameProcessed
    /\ call.op = "read_temp"
    /\ call.unit = Fahrenheit
    /\ call.enable_crc
    /\ data = <<0, 0, 0>>
    /\ result.kind = "return"
    /\ FWithin(result.val, [n |-> -5233, d |-> 100], 40)
    /\ result.val # FNeg(FLiteral(5233, 100))

\* The bits of r under mask, flipped when flips is odd.
Flipped(r, mask, flips) ==
    IF flips % 2 = 0 THEN BitAnd(r, mask) ELSE mask - BitAnd(r, mask)

\* C19: while no transaction has failed and only set_resolution,
\* toggle_heater and toggle_otp_reload have written the register, the
\* register is a function of the call history: bits 0x81 are those of the
\* last set_resolution argument (of the initial register if there was
\* none), bit 0x04 and bit 0x02 are the initial bits flipped once per
\* toggle_heater and per toggle_otp_reload call, bits 0x78 are the initial
\* ones.
C19_RegisterFromHistory ==
    hist.on =>
        /\ BitAnd(reg, 129) = BitAnd(IF hist.resolution = -1 THEN hist.reg0
                                     ELSE hist.resolution, 129)
        /\ BitAnd(reg, 4) = Flipped(hist.reg0, 4, hist.heater)
        /\ BitAnd(reg, 2) = Flipped(hist.reg0, 2, hist.otp)
        /\ BitAnd(reg, 120) = BitAnd(hist.reg0, 120)

\* C19 witness: after a set_resolution and an odd number of calls of each
\* toggle, a toggle_heater has returned with the register away from its
\* initial value in the resolution, heater and OTP bits and no other.
C19_Witness ==
    /\ hist.on
    /\ Returned("toggle_heater")
    /\ hist.resolution = 129
    /\ hist.heater = 1
    /\ hist.otp = 1
    /\ hist.reg0 = 58
    /\ reg = 189

\* The log of an init() none of whose transactions failed.
InitLog ==
    << Event("writeto", <<254>>, TRUE), Sleep(15),
       Event("writeto", <<231>>, TRUE), Event("readfrom", <<1>>, TRUE) >>

\* C13 as stated, the mask being one that leaves out the end-of-battery
\* status bit of the byte read: init returns true exactly when the byte
\* under the mask 0xBF is 0x02.
C13_InitMaskedOriginal ==
    Returned("init") => result.val = Bool(BitAnd(read_reg, 191) = 2)

\* C13 (amended): init does the reset and its wait, then one register
\* read, and returns true exactly when the byte read is 0x02, all eight
\* bits compared; any other byte gives false; the call ends in an
\* exception only when a transaction failed.
C13_InitSelfTest ==
    call.op = "init" /\ pc = "idle" =>
        /\ result.kind = "return" =>
              /\ DriverLog = InitLog
              /\ read_reg \in Byte
              /\ result.val = Bool(read_reg = 2)
        /\ result.kind # "return" =>
              /\ result.kind = "OSError"
              /\ ~DriverLog[Len(DriverLog)].ok

\* C13 witness: init returned false for the byte 0x42, the reset value
\* with the end-of-battery bit set by the sensor after the reset.
C13_Witness ==
    /\ Returned("init")
    /\ read_reg = 66
    /\ result.val = Bool(FALSE)
    /\ log[3].ev = "device"

\* The three status queries.
Queries == { "end_of_battery", "heater_enabled", "otp_reload_enabled" }

\* The bit a query reports, taken from the register byte r.
QueryBit(op, r) ==
    CASE op = "end_of_battery" -> BitAnd(r, 64) # 0
      [] op = "heater_enabled" -> BitAnd(r, 4) # 0
      [] OTHER -> BitAnd(r, 2) = 0

\* C14: the step in which a status query returns is its one register
\* read: the log of the call is then the read-register command and the
\* 1-byte read and no other transaction, and the value returned is the bit
\* of the register as the sensor holds it in that step, whatever the sensor
\* or another controller did to the register before, since the last query
\* or since this one started.
C14_NoCache ==
    [][ call.op \in Queries /\ pc = "rur_read" /\ result'.kind = "return" =>
            /\ result'.val = Bool(QueryBit(call.op, reg))
            /\ read_reg' = reg
            /\ SelectSeq(log', LAMBDA e : e.ev \notin ForeignEvents)
                  = << Event("writeto", <<231>>, TRUE), Event("readfrom", <<1>>, TRUE) >>
      ]_vars

\* C14 witness: the sensor set the end-of-battery bit after the query
\* had sent its command, and the query returned true.
C14_Witness ==
    /\ Returned("end_of_battery")
    /\ Len(log) = 3
    /\ log[2].ev = "device"
    /\ BitAnd(pre, 64) = 0
    /\ BitAnd(read_reg, 64) = 64
    /\ result.val = Bool(TRUE)

\* The register bit a toggle flips.
ToggledBit(op) == IF op = "toggle_heater" THEN 4 ELSE 2

\* C18: in the step in which a toggle writes the register, the value
\* written is the byte the toggle read with the toggled bit flipped,
\* whatever the register holds by then; when another controller wrote W
\* after the read, and W is not the byte read, the register ends other
\* than W with that bit flipped: the write of W is lost.
C18_LostUpdate ==
    [][ call.op \in {"toggle_heater", "toggle_otp_reload"} /\ pc = "wur"
        /\ result'.kind = "return" =>
            /\ reg' = BitXor(read_reg, ToggledBit(call.op))
            /\ log[Len(log)].ev = "other_write" =>
                  LET W == log[Len(log)].arg[1] IN
                  /\ reg = W
                  /\ W # read_reg => reg' # BitXor(W, ToggledBit(call.op))
      ]_vars

\* C18 witness: toggle_heater read 0x02, another controller wrote 0x3A,
\* and the toggle returned with the register at 0x06, not 0x3E.
C18_Witness ==
    /\ Returned("toggle_heater")
    /\ Len(log) = 4
    /\ log[2].ev = "readfrom"
    /\ log[3].ev = "other_write"
    /\ log[3].arg = <<58>>
    /\ read_reg = 2
    /\ reg = 6

====
